---- MODULE Spec2Model ----
(***************************************************************************)
(* Reply notifications of h: the eligibility decision get_notification,    *)
(* the subscription registry it reads, and the registration handler that   *)
(* writes the registry (h/notification/reply.py), over the user directory  *)
(* of h/accounts/models.py.                                                *)
(***************************************************************************)
EXTENDS Integers, Sequences, FiniteSets, TLC

\* The registry holds at most MaxSubs subscription rows.
MaxSubs == 2

\* Python's None for object-valued names (users, annotations, documents,
\* subscriptions, the notification, a password hash) and for the
\* string-valued columns (parent_id, salt, password_updated).
None == [none |-> TRUE]
NoneId == "None"

Usernames == {"alice", "bob"}
Authorities == {"example.org", "partner.org"}
\* request.domain of the deployment that handles the events.
RequestDomain == "example.org"
AnnotationIds == {"p1"}
ReplyId == "r1"
ActionTags == {"create", "update"}
Document == [title |-> "page"]

AllUsers == [username : Usernames, authority : Authorities]

\* User.userid
userid(user) == "acct:" \o user.username \o "@" \o user.authority

UserIds == {userid(u) : u \in AllUsers}

VARIABLES
    users,        \* the user directory: the rows of the user table
    annotations,  \* the annotation store: id -> annotation or None
    subs,         \* the subscription registry: the rows, in insertion order
    op,           \* the handler whose outcome is being observed, or Idle
    event,        \* the event that handler was given
    ret,          \* what get_notification returned
    log,          \* the warnings the handler logged
    calls,        \* the collaborator calls the handler made, in order
    account,      \* a User row's password columns, or None
    checked       \* the last password call on the row and its outcome, or None

\* The password columns and their observation: untouched by the handlers of
\* h/notification/reply.py.
passwords == <<account, checked>>

vars == <<users, annotations, subs, op, event, ret, log, calls, account,
          checked>>

Idle == "idle"
NoEvent == [none |-> TRUE]

--------------------------------------------------------------------------
\* Collaborators of get_notification.

\* storage.fetch_annotation(request.db, id)
fetch_annotation(id) ==
    IF id \in AnnotationIds THEN annotations[id] ELSE None

\* accounts.get_user(userid, request)
get_user(uid) ==
    IF \E u \in users : userid(u) = uid
    THEN CHOOSE u \in users : userid(u) = uid
    ELSE None

\* auth.has_permission(request, annotation, userid, action): reading is
\* granted to the principals the annotation lists, anything else to its owner.
has_permission(annotation, principal, action) ==
    IF action = "read"
    THEN principal \in annotation.read
    ELSE principal = annotation.userid

Min(S) == CHOOSE x \in S : \A y \in S : x <= y

\* request.db.query(Subscriptions).filter_by(**filter).first()
QueryFirst(filter) ==
    LET hits == {i \in 1..Len(subs) :
                    /\ ("active" \in DOMAIN filter => subs[i].active = filter.active)
                    /\ subs[i].type = filter.type
                    /\ subs[i].uri = filter.uri}
    IN  IF hits = {} THEN None ELSE subs[Min(hits)]

--------------------------------------------------------------------------
\* get_notification, guard by guard.

\* The Notification namedtuple, with the two users in each other's place.
NotificationUsersSwapped(reply, reply_user, parent, parent_user, document) ==
    [reply |-> reply, reply_user |-> parent_user, parent |-> parent,
     parent_user |-> reply_user, document |-> document]

\* The Notification namedtuple.
Notification(reply, reply_user, parent, parent_user, document) ==
    [reply |-> reply, reply_user |-> reply_user, parent |-> parent,
     parent_user |-> parent_user, document |-> document]

Outcome(r, l, c) == [ret |-> r, log |-> l, calls |-> c]

\* A bare `return`.
Abort(made) == Outcome(None, <<>>, made)

\* The reply-author abort without its log.warn line.
AbortSilently(reply, made) == Outcome(None, <<>>, made)

\* log.warn('user who just replied no longer exists: %s', reply.userid); return
AbortWarn(reply, made) ==
    Outcome(None,
            <<[level |-> "warning",
               msg |-> "user who just replied no longer exists: %s",
               arg |-> reply.userid]>>,
            made)

\* The action guard turning away deletions only.
OnlyDelete(action) == action = "delete"

\* action != 'create'
NotCreate(action) == action # "create"

\* The own-reply guard comparing a user with itself being skipped.
NeverSameUser(parent_user, reply_user) == FALSE

\* parent_user == reply_user
SameUser(parent_user, reply_user) == parent_user = reply_user

\* The permission asked for the reply's own author instead of the parent's.
PermissionArgsOfReplyAuthor(reply, parent) ==
    [object |-> reply, principal |-> reply.userid, action |-> "read"]

\* The arguments of the auth.has_permission call.
PermissionArgs(reply, parent) ==
    [object |-> reply, principal |-> parent.userid, action |-> "read"]

\* The document guard left out.
DocumentNotChecked(reply) == FALSE

\* reply.document is None
NoDocument(reply) == reply.document = None

\* The Subscriptions query without active=True.
SubscriptionFilterAnyState(parent) ==
    [type |-> "reply", uri |-> parent.userid]

\* The filter_by arguments of the Subscriptions query.
SubscriptionFilter(parent) ==
    [active |-> TRUE, type |-> "reply", uri |-> parent.userid]

get_notification(annotation, action) ==
    IF NotCreate(action) THEN Abort(<<>>)
    ELSE
    LET parent_id == annotation.parent_id IN
    IF parent_id = NoneId THEN Abort(<<>>)
    ELSE
    LET reply == annotation
        parent == fetch_annotation(parent_id)
        c1 == <<<<"fetch_annotation", parent_id>>>>
    IN
    IF parent = None THEN Abort(c1)
    ELSE
    LET parent_user == get_user(parent.userid)
        c2 == Append(c1, <<"get_user", parent.userid>>)
    IN
    IF parent_user = None THEN Abort(c2)
    ELSE
    LET reply_user == get_user(reply.userid)
        c3 == Append(c2, <<"get_user", reply.userid>>)
    IN
    IF reply_user = None THEN AbortWarn(reply, c3)
    ELSE
    IF SameUser(parent_user, reply_user) THEN Abort(c3)
    ELSE
    LET p == PermissionArgs(reply, parent)
        c4 == Append(c3, <<"has_permission", p.object.id, p.principal, p.action>>)
    IN
    IF ~ has_permission(p.object, p.principal, p.action) THEN Abort(c4)
    ELSE
    IF NoDocument(reply) THEN Abort(c4)
    ELSE
    LET f == SubscriptionFilter(parent)
        sub == QueryFirst(f)
        c5 == Append(c4, <<"query", f.type, f.uri>>)
    IN
    IF sub = None THEN Abort(c5)
    ELSE Outcome(Notification(reply, reply_user, parent, parent_user,
                              reply.document),
                 <<>>, c5)

--------------------------------------------------------------------------
\* The registration handler.

\* create_subscription adding a row only when the uri has none yet.
create_subscription_once(uri, active) ==
    IF \E i \in 1..Len(subs) : subs[i].uri = uri /\ subs[i].type = "reply"
    THEN subs
    ELSE Append(subs, [uri |-> uri, type |-> "reply", active |-> active])

\* create_subscription(request, uri, active): add one row and flush.
create_subscription(uri, active) ==
    Append(subs, [uri |-> uri, type |-> "reply", active |-> active])

\* registration_subscriptions(event)
registration_subscriptions(user) ==
    LET user_uri == "acct:" \o user.username \o "@" \o RequestDomain
    IN  create_subscription(user_uri, TRUE)

--------------------------------------------------------------------------
\* The events.

\* The annotations an event can carry: a reply (or a top-level annotation)
\* by any user id, readable by nobody, by its author alone, or by everyone.
EventAnnotations ==
    UNION {{[id |-> ReplyId, userid |-> u, parent_id |-> p, document |-> d,
             read |-> r] : r \in {{}, {u}, UserIds}}
           : <<u, p, d>> \in UserIds \X (AnnotationIds \cup {NoneId})
                                     \X {None, Document}}

Init ==
    /\ users = {}
    /\ annotations = [id \in AnnotationIds |-> None]
    /\ subs = <<>>
    /\ op = Idle
    /\ event = NoEvent
    /\ ret = None
    /\ log = <<>>
    /\ calls = <<>>
    /\ account = None
    /\ checked = None

Quiet == op = Idle /\ UNCHANGED <<op, event, ret, log, calls, passwords>>

\* get_notification switching off the subscription it has just used.
EvaluateConsuming(annotation, action) ==
    /\ op = Idle
    /\ LET r == get_notification(annotation, action)
       IN  /\ ret' = r.ret
           /\ log' = r.log
           /\ calls' = r.calls
           /\ subs' = IF r.ret = None THEN subs
                      ELSE [i \in 1..Len(subs) |->
                              IF subs[i].uri = r.ret.parent.userid
                              THEN [subs[i] EXCEPT !.active = FALSE]
                              ELSE subs[i]]
    /\ op' = "get_notification"
    /\ event' = [annotation |-> annotation, action |-> action]
    /\ UNCHANGED <<users, annotations, passwords>>

\* An annotation event reaches get_notification.
Evaluate(annotation, action) ==
    /\ op = Idle
    /\ LET r == get_notification(annotation, action)
       IN  /\ ret' = r.ret
           /\ log' = r.log
           /\ calls' = r.calls
    /\ op' = "get_notification"
    /\ event' = [annotation |-> annotation, action |-> action]
    /\ UNCHANGED <<users, annotations, subs, passwords>>

\* A RegistrationEvent reaches registration_subscriptions.
OnUserRegistered(user) ==
    /\ op = Idle
    /\ Len(subs) < MaxSubs
    /\ subs' = registration_subscriptions(user)
    /\ op' = "registration_subscriptions"
    /\ event' = [user |-> user]
    /\ ret' = None
    /\ log' = <<>>
    /\ calls' = <<>>
    /\ UNCHANGED <<users, annotations, passwords>>

\* The outcome of the handled event is handed on and forgotten.
Discard ==
    /\ op # Idle
    /\ op' = Idle
    /\ event' = NoEvent
    /\ ret' = None
    /\ log' = <<>>
    /\ calls' = <<>>
    /\ UNCHANGED <<users, annotations, subs, passwords>>

\* The environment: sign-up, account deletion, annotation creation and
\* deletion, and the user switching a subscription on or off.
Signup(username, authority) ==
    /\ Quiet
    /\ \A u \in users : u.username # username
    /\ users' = users \cup {[username |-> username, authority |-> authority]}
    /\ UNCHANGED <<annotations, subs>>

DeleteUser(user) ==
    /\ Quiet
    /\ users' = users \ {user}
    /\ UNCHANGED <<annotations, subs>>

CreateAnnotation(id, author, document) ==
    /\ Quiet
    /\ annotations[id] = None
    /\ annotations' = [annotations EXCEPT ![id] =
            [id |-> id, userid |-> userid(author), parent_id |-> NoneId,
             document |-> document, read |-> UserIds]]
    /\ UNCHANGED <<users, subs>>

DeleteAnnotation(id) ==
    /\ Quiet
    /\ annotations[id] # None
    /\ annotations' = [annotations EXCEPT ![id] = None]
    /\ UNCHANGED <<users, subs>>

Toggle(i) ==
    /\ Quiet
    /\ subs' = [subs EXCEPT ![i].active = ~ @]
    /\ UNCHANGED <<users, annotations>>

Next ==
    \/ \E a \in EventAnnotations, t \in ActionTags : Evaluate(a, t)
    \/ \E u \in users : OnUserRegistered(u)
    \/ Discard
    \/ \E n \in Usernames, d \in Authorities : Signup(n, d)
    \/ \E u \in users : DeleteUser(u)
    \/ \E id \in AnnotationIds, u \in users, d \in {None, Document} :
            CreateAnnotation(id, u, d)
    \/ \E id \in AnnotationIds : DeleteAnnotation(id)
    \/ \E i \in 1..Len(subs) : Toggle(i)

Spec == Init /\ [][Next]_vars

--------------------------------------------------------------------------
\* The password columns of User (h/accounts/models.py).

PASSWORD_MIN_LENGTH == 2

\* The passwords tried and set, and the salts of legacy rows.
Values == {"", "a", "ab", "abc", "xy"}
Salts == {"c", "bc"}
Schemes == {"current", "deprecated"}

\* password_context.encrypt(secret): a hash is of one secret, under the
\* context's current scheme.
encrypt(secret) == [secret |-> secret, scheme |-> "current"]

\* password_context.verify(secret, hash)
verify(secret, hash) == hash.secret = secret

\* password_context.verify_and_update(secret, hash): a verified hash of a
\* deprecated scheme comes back re-hashed.
verify_and_update(secret, hash) ==
    IF verify(secret, hash)
    THEN <<TRUE, IF hash.scheme = "deprecated" THEN encrypt(secret) ELSE None>>
    ELSE <<FALSE, None>>

\* Python's True and False as a call's outcome, beside the exceptions.
Bool(b) == IF b THEN "True" ELSE "False"

\* User.password setter: the row after the call, and None or the exception.
set_password(row, value) ==
    IF Len(value) < PASSWORD_MIN_LENGTH
    THEN [user |-> row, outcome |-> "ValueError"]
    ELSE [user |-> [row EXCEPT !.salt = NoneId,
                               !.password = encrypt(value),
                               !.password_updated = "utcnow"],
          outcome |-> "None"]

\* User.check_password: the row after the call, and the value returned or
\* the exception that left it.
check_password(row, value) ==
    IF row.password = None
    THEN [user |-> row, outcome |-> Bool(FALSE)]
    ELSE
    IF row.salt # NoneId
    THEN LET verified == verify(value \o row.salt, row.password)
             set == set_password(row, value)
         IN  IF verified
             THEN IF set.outcome = "ValueError"
                  THEN set
                  ELSE [user |-> set.user, outcome |-> Bool(verified)]
             ELSE [user |-> row, outcome |-> Bool(verified)]
    ELSE LET vu == verify_and_update(value, row.password)
             verified == vu[1]
             new_hash == vu[2]
         IN  [user |-> IF new_hash # None
                       THEN [row EXCEPT !.password = new_hash]
                       ELSE row,
              outcome |-> Bool(verified)]

\* The rows the user table can hold: rows written by the password setter
\* (no salt, a password of PASSWORD_MIN_LENGTH or more), rows without a
\* password, and legacy rows, whose hash is of password + salt.
SetterRows ==
    {[password |-> [secret |-> v, scheme |-> c], salt |-> NoneId,
      password_updated |-> "utcnow"]
     : <<v, c>> \in {v \in Values : Len(v) >= PASSWORD_MIN_LENGTH} \X Schemes}

LegacyRows ==
    {[password |-> [secret |-> v \o s, scheme |-> c], salt |-> s,
      password_updated |-> NoneId]
     : <<v, s, c>> \in Values \X Salts \X Schemes}

EmptyRows ==
    {[password |-> None, salt |-> s, password_updated |-> NoneId]
     : s \in Salts \cup {NoneId}}

InitPassword ==
    /\ users = {}
    /\ annotations = [id \in AnnotationIds |-> None]
    /\ subs = <<>>
    /\ op = Idle
    /\ event = NoEvent
    /\ ret = None
    /\ log = <<>>
    /\ calls = <<>>
    /\ account \in SetterRows \cup LegacyRows \cup EmptyRows
    /\ checked = None

Called(name, value, r) ==
    /\ account' = r.user
    /\ checked' = [call |-> name, value |-> value, before |-> account,
                   outcome |-> r.outcome]
    /\ UNCHANGED <<users, annotations, subs, op, event, ret, log, calls>>

\* user.check_password(value)
CheckPassword(value) == Called("check_password", value,
                               check_password(account, value))

\* user.password = value
SetPassword(value) == Called("password", value, set_password(account, value))

NextPassword ==
    \/ \E v \in Values : CheckPassword(v)
    \/ \E v \in Values : SetPassword(v)

SpecPassword == InitPassword /\ [][NextPassword]_vars

--------------------------------------------------------------------------
\* What the properties below say about the event just handled.

Evaluated == op = "get_notification"
Registered == op = "registration_subscriptions"

TheReply == event.annotation
TheParent == fetch_annotation(event.annotation.parent_id)

\* The event is the creation of an annotation that names a parent.
ReplyCreated ==
    /\ Evaluated
    /\ event.action = "create"
    /\ TheReply.parent_id # NoneId

\* ... and the parent is in the store.
ParentFound == ReplyCreated /\ TheParent # None

\* The parent named by the annotation is in the store, whatever the action.
HasParent ==
    /\ Evaluated
    /\ TheReply.parent_id # NoneId
    /\ TheParent # None

ActiveReplySubscription(uri) ==
    \E i \in 1..Len(subs) :
        subs[i].type = "reply" /\ subs[i].uri = uri /\ subs[i].active

\* Both authors are in the directory and are different users.
DistinctAuthors ==
    /\ get_user(TheParent.userid) # None
    /\ get_user(TheReply.userid) # None
    /\ userid(get_user(TheParent.userid)) # userid(get_user(TheReply.userid))

C1_AllGuardsPass ==
    /\ ParentFound
    /\ DistinctAuthors
    /\ has_permission(TheReply, TheParent.userid, "read")
    /\ TheReply.document # None
    /\ ActiveReplySubscription(TheParent.userid)

\* C1: when every guard passes, get_notification returns the notification
\* made of the reply, its author, the parent, the parent's author and the
\* reply's own document.
C1_NotificationReturned ==
    C1_AllGuardsPass =>
        ret = [reply |-> TheReply,
               reply_user |-> get_user(TheReply.userid),
               parent |-> TheParent,
               parent_user |-> get_user(TheParent.userid),
               document |-> TheReply.document]

C1_Witness == C1_AllGuardsPass /\ ret # None

C2_SameAuthor ==
    /\ HasParent
    /\ TheReply.userid = TheParent.userid

\* C2: a reply whose author is the parent's author yields no notification,
\* even when every other guard would pass.
C2_NoSelfNotification == C2_SameAuthor => ret = None

C2_Witness ==
    /\ C2_SameAuthor
    /\ event.action = "create"
    /\ get_user(TheParent.userid) # None
    /\ has_permission(TheReply, TheParent.userid, "read")
    /\ TheReply.document # None
    /\ ActiveReplySubscription(TheParent.userid)
    /\ ret = None

C3_PermissionCall ==
    <<"has_permission", TheReply.id, TheParent.userid, "read">>

C3_Unreadable ==
    /\ HasParent
    /\ ~ has_permission(TheReply, TheParent.userid, "read")

\* C3: the permission question is asked for the parent's author, about the
\* reply, for "read"; when its answer is no, nothing is returned, whatever
\* the registry holds; a returned notification has had the question asked.
C3_NoNotificationOfUnreadableReply ==
    /\ C3_Unreadable => ret = None
    /\ Evaluated =>
        \A i \in 1..Len(calls) :
            calls[i][1] = "has_permission" => calls[i] = C3_PermissionCall
    /\ (Evaluated /\ ret # None) =>
        \E i \in 1..Len(calls) : calls[i] = C3_PermissionCall

C3_Witness ==
    /\ C3_Unreadable
    /\ event.action = "create"
    /\ DistinctAuthors
    /\ TheReply.document # None
    /\ ActiveReplySubscription(TheParent.userid)
    /\ \E i \in 1..Len(calls) : calls[i] = C3_PermissionCall
    /\ ret = None

C4_NoActiveSubscription ==
    /\ HasParent
    /\ ~ ActiveReplySubscription(TheParent.userid)

\* C4: without an active "reply" subscription whose target is the parent's
\* author, nothing is returned: when the target has no row, and when it has
\* inactive rows only.
C4_NoSubscriptionNoNotification == C4_NoActiveSubscription => ret = None

C4_Witness ==
    /\ C4_NoActiveSubscription
    /\ \E i \in 1..Len(subs) :
        subs[i].uri = TheParent.userid /\ ~ subs[i].active
    /\ event.action = "create"
    /\ DistinctAuthors
    /\ has_permission(TheReply, TheParent.userid, "read")
    /\ TheReply.document # None
    /\ ret = None

\* C5: nothing is returned for an action other than "create", for an
\* annotation without a parent id, or for a parent id that is not in the store.
C5_OnlyCreatedRepliesWithParent ==
    Evaluated =>
        /\ event.action # "create" => ret = None
        /\ TheReply.parent_id = NoneId => ret = None
        /\ (TheReply.parent_id # NoneId /\ TheParent = None) => ret = None

C5_Witness ==
    /\ HasParent
    /\ event.action # "create"
    /\ DistinctAuthors
    /\ has_permission(TheReply, TheParent.userid, "read")
    /\ TheReply.document # None
    /\ ActiveReplySubscription(TheParent.userid)
    /\ ret = None

RegistrationStep == op = Idle /\ op' = "registration_subscriptions"

SameTarget(rows, uri) ==
    {i \in 1..Len(rows) : rows[i].uri = uri /\ rows[i].type = "reply"}

\* C6: a run of registration_subscriptions appends exactly one row, of type
\* "reply" and active, and leaves the rows already there as they were,
\* whatever they are; a second run for the same user leaves two rows with
\* the same uri and type.
C6_RegistrationAppendsOneRow ==
    [][RegistrationStep =>
        /\ Len(subs') = Len(subs) + 1
        /\ SubSeq(subs', 1, Len(subs)) = subs
        /\ subs'[Len(subs')].type = "reply"
        /\ subs'[Len(subs')].active = TRUE
        /\ Cardinality(SameTarget(subs', subs'[Len(subs')].uri))
             = Cardinality(SameTarget(subs, subs'[Len(subs')].uri)) + 1]_vars

C6_Witness ==
    /\ Registered
    /\ \E i \in 1..Len(subs) : \E j \in 1..Len(subs) :
        /\ i < j
        /\ j = Len(subs)
        /\ subs[i].uri = subs[j].uri
        /\ subs[i].type = subs[j].type

\* C7: the row registration_subscriptions adds for a user has that user's
\* userid as its uri.
C7_TargetIsUserid ==
    Registered => subs[Len(subs)].uri = userid(event.user)

\* C8: a returned notification has none of its five fields None; nothing is
\* returned when the parent's author or the reply's author is not in the
\* directory, or when the reply has no document, whatever its parent has.
C8_FullyPopulated ==
    /\ (Evaluated /\ ret # None) =>
        /\ ret.reply # None
        /\ ret.reply_user # None
        /\ ret.parent # None
        /\ ret.parent_user # None
        /\ ret.document # None
    /\ HasParent =>
        /\ get_user(TheParent.userid) = None => ret = None
        /\ get_user(TheReply.userid) = None => ret = None
    /\ (Evaluated /\ TheReply.document = None) => ret = None

C8_Witness ==
    /\ HasParent
    /\ TheReply.document = None
    /\ TheParent.document # None
    /\ event.action = "create"
    /\ DistinctAuthors
    /\ has_permission(TheReply, TheParent.userid, "read")
    /\ ActiveReplySubscription(TheParent.userid)
    /\ ret = None

EvaluationStep == op = Idle /\ op' = "get_notification"

ToggleStep ==
    /\ op = Idle /\ op' = Idle
    /\ Len(subs') = Len(subs)
    /\ \E i \in 1..Len(subs) :
        subs' = [subs EXCEPT ![i].active = ~ subs[i].active]

\* C9: a run of get_notification leaves the registry, the annotation store
\* and the user directory as they were; the registry is changed by
\* registration_subscriptions and, outside the handlers, by a user's toggle
\* of a row, and by nothing else.
C9_EvaluateReadOnly ==
    [][/\ EvaluationStep => UNCHANGED <<subs, annotations, users>>
       /\ subs' # subs => (RegistrationStep \/ ToggleStep)]_vars

C9_Witness ==
    /\ Evaluated
    /\ ret # None
    /\ Len(subs) = MaxSubs

FirstFailedGuard ==
    IF event.action # "create" THEN 1
    ELSE IF TheReply.parent_id = NoneId THEN 2
    ELSE IF TheParent = None THEN 3
    ELSE IF get_user(TheParent.userid) = None THEN 4
    ELSE IF get_user(TheReply.userid) = None THEN 5
    ELSE IF get_user(TheParent.userid) = get_user(TheReply.userid) THEN 6
    ELSE IF ~ has_permission(TheReply, TheParent.userid, "read") THEN 7
    ELSE IF TheReply.document = None THEN 8
    ELSE IF ~ ActiveReplySubscription(TheParent.userid) THEN 9
    ELSE 10

LookupsOfGuards ==
    <<<<"fetch_annotation", TheReply.parent_id>>,
      <<"get_user", TheParent.userid>>,
      <<"get_user", TheReply.userid>>,
      <<"has_permission", TheReply.id, TheParent.userid, "read">>,
      <<"query", "reply", TheParent.userid>>>>

\* How many lookups the guards up to guard g make.
LookupsUpTo(g) ==
    IF g <= 2 THEN 0
    ELSE IF g = 3 THEN 1
    ELSE IF g = 4 THEN 2
    ELSE IF g <= 6 THEN 3
    ELSE IF g <= 8 THEN 4
    ELSE 5

\* C10: the guards are tried in the order 1 to 9 and the first that fails
\* ends the run, so the lookups made are exactly those of the guards up to
\* it; the run that ends at guard 5 (reply author not in the directory) logs
\* one warning and returns nothing, and no other run logs anything.
C10_OnlyMissingReplyAuthorLogs ==
    Evaluated =>
        /\ Len(calls) = LookupsUpTo(FirstFailedGuard)
        /\ Len(calls) > 1 => calls = SubSeq(LookupsOfGuards, 1, Len(calls))
        /\ Len(calls) = 1 => calls[1] = <<"fetch_annotation", TheReply.parent_id>>
        /\ FirstFailedGuard = 5 =>
            /\ ret = None
            /\ Len(log) = 1
            /\ log[1].level = "warning"
            /\ log[1].arg = TheReply.userid
        /\ FirstFailedGuard # 5 => log = <<>>
        /\ FirstFailedGuard < 10 => ret = None

C10_Witness ==
    /\ Evaluated
    /\ FirstFailedGuard = 5
    /\ Len(log) = 1
    /\ Len(calls) = 3

\* A check_password call has just been made on a row that had a salt and a
\* password.
LegacyChecked ==
    /\ checked # None
    /\ checked.call = "check_password"
    /\ checked.before.salt # NoneId
    /\ checked.before.password # None

LegacyMatches ==
    verify(checked.value \o checked.before.salt, checked.before.password)

LegacyUpgrade ==
    /\ checked.outcome \in {"True", "False"}
    /\ checked.outcome = "True" <=> LegacyMatches
    /\ checked.outcome = "True" =>
        /\ account.salt = NoneId
        /\ verify(checked.value, account.password)
        /\ check_password(account, checked.value).outcome = "True"
    /\ checked.outcome = "False" =>
        /\ account.password = checked.before.password
        /\ account.salt = checked.before.salt

\* C11: on a row with a salt and a password, check_password(value) returns
\* True exactly when value + salt verifies against the stored hash, for
\* every value; on True the password is the hash of value alone and the
\* salt is None, so that a later check_password(value) returns True; on
\* False password and salt are as before; the call returns True or False
\* and raises nothing.
C11_LegacySaltUpgrade == LegacyChecked => LegacyUpgrade

\* What holds of C11 on the code: the above for every value that is not
\* shorter than PASSWORD_MIN_LENGTH or does not verify; a shorter value
\* that verifies leaves check_password by the setter's ValueError, with the
\* row as it was.
C11_UpgradeUnlessTooShort ==
    LegacyChecked =>
        IF LegacyMatches /\ Len(checked.value) < PASSWORD_MIN_LENGTH
        THEN checked.outcome = "ValueError" /\ account = checked.before
        ELSE LegacyUpgrade

C11_UpgradeWitness ==
    /\ LegacyChecked
    /\ checked.outcome = "True"
    /\ account.salt = NoneId

====
